---- MODULE Spec2Model ----
(***************************************************************************)
(* Model of the RaptorQ forward-error-correction demo (src/main.rs).       *)
(*                                                                         *)
(* main() is one sequential program: it assembles the hex records into a   *)
(* byte buffer, encodes the buffer into source and repair packets,         *)
(* shuffles and truncates the packet vector to simulate loss, feeds the    *)
(* survivors one at a time to a decoder until a feed returns a buffer, and *)
(* reports the outcome.  The three compile-time constants and the record   *)
(* list are generalised to values drawn from bounded sets in Init.         *)
(*                                                                         *)
(* The raptorq crate is not part of the repository.  Its behaviour at the  *)
(* call sites is modelled from its contract: source symbols are the        *)
(* zero-padded chunks of the buffer, a repair symbol is an opaque encoding *)
(* of its source block, a block is decoded as soon as all its source       *)
(* symbols have arrived, and otherwise the solver is tried once at least K *)
(* distinct symbols have arrived.  Whether the solver succeeds on a given  *)
(* symbol set is not decided here: the variable deficient holds a set of   *)
(* symbol ids, chosen arbitrarily in Init, every subset of which is        *)
(* rank-deficient (so the solver outcome is a fixed, monotone function of  *)
(* the set of symbols received).                                           *)
(***************************************************************************)
EXTENDS Integers, Naturals, Sequences, FiniteSets, TLC

(* ---- program constants (src/main.rs:6-8, 27) ---- *)
SYMBOL_SIZE == 128

REPAIR_PACKETS_PER_BLOCK == 10

SIMULATED_LOSS == 8

RECORD_LEN == 32

PREVIEW_PACKETS == 8

(* ---- bounds of the model ---- *)
MaxRecords == 3

MaxRepair == 1

MaxLoss == 4

(* ---- Option<T>: None is the empty sequence, Some(x) is <<x>> ---- *)
None == <<>>

Some(x) == <<x>>

IsSome(o) == o /= <<>>

Unwrap(o) == o[1]

Min(a, b) == IF a < b THEN a ELSE b

(* ---- the record list of main (src/main.rs:12-16) ---- *)
Hash1 ==
    <<
       "2","f","8","b","c","e","2","a","7","a","4","f","7","e","4","d",
       "8","b","8","c","8","d","8","e","8","f","9","0","9","1","9","2",
       "9","3","9","4","9","5","9","6","9","7","9","8","9","9","9","a",
       "9","b","9","c","9","d","9","e","9","f","a","0","a","1","a","2" >>

Hash2 ==
    <<
       "a","1","a","2","a","3","a","4","b","1","b","2","b","3","b","4",
       "c","1","c","2","c","3","c","4","d","1","d","2","d","3","d","4",
       "e","1","e","2","e","3","e","4","f","1","f","2","f","3","f","4",
       "0","1","0","2","0","3","0","4","0","5","0","6","0","7","0","8" >>

Hash3 ==
    <<
       "1","1","2","2","3","3","4","4","5","5","6","6","7","7","8","8",
       "9","9","0","0","a","a","b","b","c","c","d","d","e","e","f","f",
       "1","1","2","2","3","3","4","4","5","5","6","6","7","7","8","8",
       "9","9","0","0","a","a","b","b","c","c","d","d","e","e","f","f" >>

(* Further records for lists longer than the shipped one. *)
ExtraHash(n) == [j \in 1..(2 * RECORD_LEN) |->
                   <<"0","1","2","3","4","5","6","7","8","9","a","b","c","d","e","f">>[((j * 7 + n) % 16) + 1]]

SampleHash(n) == IF n = 1 THEN Hash1 ELSE IF n = 2 THEN Hash2 ELSE IF n = 3 THEN Hash3 ELSE ExtraHash(n)

SampleHashes(n) == [j \in 1..n |-> SampleHash(j)]

(* Malformed variants of a record: a non-hex character, an odd number of   *)
(* digits, one byte too few, one byte too many.                            *)
MalformKinds == {"badchar", "odd", "short", "long"}

Malform(h, kind) ==
    CASE kind = "badchar" -> [h EXCEPT ![3] = "g"]
      [] kind = "odd"     -> SubSeq(h, 1, Len(h) - 1)
      [] kind = "short"   -> SubSeq(h, 1, Len(h) - 2)
      [] kind = "long"    -> h \o <<"0", "0">>

(* ---- hex::decode (src/main.rs:26) ---- *)
HexDigits == <<"0","1","2","3","4","5","6","7","8","9","a","b","c","d","e","f">>

IsHexDigit(c) == \E v \in 1..16 : HexDigits[v] = c

HexVal(c) == (CHOOSE v \in 1..16 : HexDigits[v] = c) - 1

\* Result<Vec<u8>, FromHexError>: [ok |-> TRUE, bytes] or [ok |-> FALSE, bytes |-> <<>>]
HexDecode(s) ==
    IF Len(s) % 2 /= 0 \/ \E j \in 1..Len(s) : ~IsHexDigit(s[j])
    THEN [ok |-> FALSE, bytes |-> <<>>]
    ELSE [ok |-> TRUE,
          bytes |-> [j \in 1..(Len(s) \div 2) |-> 16 * HexVal(s[2 * j - 1]) + HexVal(s[2 * j])]]

\* hex::encode, the inverse direction (src/main.rs:85)
HexEncode(bytes) ==
    [j \in 1..(2 * Len(bytes)) |->
        IF j % 2 = 1 THEN HexDigits[(bytes[(j + 1) \div 2] \div 16) + 1]
                     ELSE HexDigits[(bytes[j \div 2] % 16) + 1]]

(* ---- Source Assembler: one iteration of the loop at src/main.rs:25-30 ---- *)
\* no check of the decoded length
RecordLenAny(bytes) == TRUE

\* bytes.len() == 32 is asserted after a successful decode
RecordLenOk(bytes) == Len(bytes) = RECORD_LEN

\* the record put in front of the buffer instead of behind it
ExtendAtFront(buf, bytes) == bytes \o buf

\* data_bytes.extend_from_slice(&bytes)
ExtendFromSlice(buf, bytes) == buf \o bytes

(* ---- raptorq::Encoder at its call sites (src/main.rs:36-42) ---- *)
\* ObjectTransmissionInformation::with_defaults aligns the symbol size to 8
AlignSymbolSize(mtu) == mtu - (mtu % 8)

\* buffers of this size are never partitioned: one source block
WithDefaults(len, mtu) ==
    [transfer_length |-> len, symbol_size |-> AlignSymbolSize(mtu), source_blocks |-> 1]

\* K: the number of source symbols of the block, ceil(F / T)
SourceBlockSymbols(cfg) == (cfg.transfer_length + cfg.symbol_size - 1) \div cfg.symbol_size

\* K': the smallest tabulated block size not below K (RFC 6330 table 2)
ExtendedSourceBlockSymbols(K) ==
    IF K <= 10 THEN 10 ELSE IF K <= 12 THEN 12 ELSE IF K <= 18 THEN 18 ELSE IF K <= 20 THEN 20 ELSE 26

\* source symbol j (from 0): bytes [j*T, (j+1)*T) of the buffer, zero-padded
SourceSymbol(data, T, j) ==
    [b \in 1..T |-> IF j * T + b <= Len(data) THEN data[j * T + b] ELSE 0]

BlockSymbols(data, cfg) ==
    [j \in 1..SourceBlockSymbols(cfg) |-> SourceSymbol(data, cfg.symbol_size, j - 1)]

RECURSIVE Flatten(_)
Flatten(ss) == IF ss = <<>> THEN <<>> ELSE Head(ss) \o Flatten(Tail(ss))

\* a repair symbol is an opaque encoding of its block under its symbol id,
\* written as the id followed by the symbols it encodes
RepairSymbol(symbols, esi) == <<esi>> \o Flatten(symbols)

\* source symbol j (from 1) of the block a repair symbol encodes
RepairOperand(data, T, j) == SubSeq(data, (j - 1) * T + 2, j * T + 1)

EncoderWithDefaults(data, mtu) ==
    LET cfg == WithDefaults(Len(data), mtu)
    IN  [config |-> cfg, symbols |-> BlockSymbols(data, cfg)]

SourcePackets(enc) ==
    [j \in 1..Len(enc.symbols) |-> [sbn |-> 0, esi |-> j - 1, data |-> enc.symbols[j]]]

RepairPackets(enc, count) ==
    LET Kx == ExtendedSourceBlockSymbols(Len(enc.symbols))
    IN  [r \in 1..count |->
            [sbn |-> 0, esi |-> Kx + r - 1, data |-> RepairSymbol(enc.symbols, Kx + r - 1)]]

\* a configuration that carries the padded block length instead of the buffer length
GetConfigPadded(enc) ==
    [enc.config EXCEPT !.transfer_length = Len(enc.symbols) * enc.config.symbol_size]

\* encoder.get_config() (src/main.rs:39): the configuration the decoder is given
GetConfig(enc) == enc.config

\* all source packets of the block, then its repair packets
GetEncodedPackets(enc, repair) == SourcePackets(enc) \o RepairPackets(enc, repair)

(* ---- raptorq::Decoder at its call sites (src/main.rs:68, 73) ---- *)
DecoderNew(cfg) ==
    [config          |-> cfg,
     received_esi    |-> {},
     source_symbols  |-> [j \in 1..SourceBlockSymbols(cfg) |-> None],
     repair_packets  |-> <<>>,
     block           |-> None]

\* the solver runs on the symbols received so far; it fails on the
\* rank-deficient sets and otherwise yields every source symbol, the missing
\* ones recovered from the repair symbols
TryPiDecode(dec, bad) ==
    IF dec.received_esi \subseteq bad
    THEN None
    ELSE Some([j \in 1..Len(dec.source_symbols) |->
                 IF IsSome(dec.source_symbols[j])
                 THEN Unwrap(dec.source_symbols[j])
                 ELSE RepairOperand(dec.repair_packets[1].data, dec.config.symbol_size, j)])

\* SourceBlockDecoder::decode for one packet
BlockDecode(dec, packet, bad) ==
    LET K   == Len(dec.source_symbols)
        Kx  == ExtendedSourceBlockSymbols(K)
        new == packet.esi \notin dec.received_esi
        d1  == IF ~new THEN dec
               ELSE IF packet.esi >= Kx
               THEN [dec EXCEPT !.received_esi = @ \cup {packet.esi},
                                !.repair_packets = Append(@, packet)]
               ELSE [dec EXCEPT !.received_esi = @ \cup {packet.esi},
                                !.source_symbols[packet.esi + 1] = Some(packet.data)]
        res == IF \A j \in 1..K : IsSome(d1.source_symbols[j])
               THEN Some([j \in 1..K |-> Unwrap(d1.source_symbols[j])])
               ELSE IF Cardinality(d1.received_esi) >= K
               THEN TryPiDecode(d1, bad)
               ELSE None
    IN  [d1 EXCEPT !.block = IF IsSome(res) THEN Some(Flatten(Unwrap(res))) ELSE None]

\* Decoder::decode: a decoded block is not decoded again; the result is the
\* block truncated to the transfer length
DecoderDecode(dec, packet, bad) ==
    LET d1 == IF IsSome(dec.block) THEN dec ELSE BlockDecode(dec, packet, bad)
    IN  [decoder |-> d1,
         result  |-> IF IsSome(d1.block)
                     THEN Some(SubSeq(Unwrap(d1.block), 1,
                                      Min(Len(Unwrap(d1.block)), d1.config.transfer_length)))
                     ELSE None]

(* ---- Channel Simulator (src/main.rs:60-63) ---- *)
Perms(n) == {f \in [1..n -> 1..n] : \A a, b \in 1..n : f[a] = f[b] => a = b}

\* a rearrangement that copies one element over another instead of swapping
ShuffleDup(s, perm) == [j \in 1..Len(s) |-> s[perm[IF j = Len(s) THEN 1 ELSE j]]]

\* received_packets.shuffle(&mut rng): the vector rearranged by a permutation
Shuffle(s, perm) == [j \in 1..Len(s) |-> s[perm[j]]]

\* subtraction that wraps around below zero (16 bits stand for the width of usize)
WrappingSub(a, b) == (a - b) % 65536

\* usize::saturating_sub
SaturatingSub(a, b) == IF b > a THEN 0 ELSE a - b

\* the operands of the subtraction exchanged
SurvivorCountSwapped(len, loss) == SaturatingSub(loss, len)

\* the loss count taken for the number of packets to keep
SurvivorCountKept(len, loss) == loss

\* the argument of truncate (src/main.rs:63): the length less the loss count
SurvivorCount(len, loss) == SaturatingSub(len, loss)

\* a truncation that removes nothing
TruncateNothing(s, len) == s

\* Vec::truncate(len): no effect when len is not below the current length
Truncate(s, len) == IF len < Len(s) THEN SubSeq(s, 1, len) ELSE s

(* ---- Verifier/Reporter (src/main.rs:84) ---- *)
\* chunking that stops one chunk early
ChunksExactShort(buf, n) ==
    [c \in 1..((Len(buf) \div n) - 1) |-> SubSeq(buf, (c - 1) * n + 1, c * n)]

\* slice::chunks_exact(n): the full chunks only, a shorter tail is left out
ChunksExact(buf, n) == [c \in 1..(Len(buf) \div n) |-> SubSeq(buf, (c - 1) * n + 1, c * n)]

\* one line of standard output: what is printed and its argument
Line(tag, arg) == [tag |-> tag, arg |-> arg]

\* the preview loop (src/main.rs:48-57): one line for each of the first packets
PreviewLines(pkts) == [j \in 1..Min(PREVIEW_PACKETS, Len(pkts)) |-> Line("packet", <<pkts[j].sbn, pkts[j].esi>>)]

\* the lines of the success branch (src/main.rs:82-86)
SuccessLines(recovered) ==
    <<Line("full_success", <<Len(recovered)>>)>>
    \o [c \in 1..Len(ChunksExact(recovered, RECORD_LEN)) |->
           Line("recovered_hash", HexEncode(ChunksExact(recovered, RECORD_LEN)[c]))]

\* a match whose None arm prints nothing
ReportLinesSilent(rec) ==
    IF IsSome(rec) THEN SuccessLines(Unwrap(rec)) ELSE <<>>

\* the match on reconstructed (src/main.rs:80-91)
ReportLines(rec) ==
    IF IsSome(rec) THEN SuccessLines(Unwrap(rec)) ELSE <<Line("failed", <<>>)>>

(* ---- the inputs of a run ---- *)
WellFormedInputs == {SampleHashes(n) : n \in 1..MaxRecords}

MalformedInputs ==
    UNION {{[SampleHashes(n) EXCEPT ![k] = Malform(@, kind)] : k \in 1..n, kind \in MalformKinds}
           : n \in 1..MaxRecords}

\* the shipped symbol size, one that is not a multiple of 8, and one that
\* splits the shipped buffer into two symbols
SymbolSizes == {SYMBOL_SIZE, 100, SYMBOL_SIZE \div 2}

RepairCounts == 0..MaxRepair

LossCounts == 0..MaxLoss

\* the symbol ids of the stream generated for n records
StreamEsis(n, mtu, rep) ==
    LET K == SourceBlockSymbols(WithDefaults(n * RECORD_LEN, mtu))
    IN  (0..(K - 1)) \cup {ExtendedSourceBlockSymbols(K) + r - 1 : r \in 1..rep}

VARIABLES
    block_hashes_hex,           \* the record list (src/main.rs:12)
    symbol_size,                \* SYMBOL_SIZE
    repair_packets_per_block,   \* REPAIR_PACKETS_PER_BLOCK
    simulated_loss,             \* SIMULATED_LOSS
    deficient,                  \* symbol ids whose subsets the solver cannot decode
    pc,                         \* position in main
    i,                          \* index of the record being assembled (from 1)
    data_bytes,                 \* the source buffer
    encoder,                    \* Option<Encoder>
    oti,                        \* Option<ObjectTransmissionInformation>
    packets,                    \* the generated packet stream
    received_packets,           \* the vector shuffled, truncated and then iterated
    survivors,                  \* received_packets as it was when the feed loop started
    decoder,                    \* Option<Decoder>
    reconstructed,              \* Option<Vec<u8>>
    fed,                        \* the packets passed to decoder.decode, in order
    out,                        \* the lines printed so far
    exit_status                 \* Option<i32>: the status the process ended with

vars == <<block_hashes_hex, symbol_size, repair_packets_per_block, simulated_loss, deficient,
          pc, i, data_bytes, encoder, oti, packets, received_packets, survivors, decoder,
          reconstructed, fed, out, exit_status>>

params == <<block_hashes_hex, symbol_size, repair_packets_per_block, simulated_loss, deficient>>

Init ==
    /\ \/ /\ block_hashes_hex \in WellFormedInputs
          /\ symbol_size \in SymbolSizes
          /\ repair_packets_per_block \in RepairCounts
          /\ simulated_loss \in LossCounts
          /\ deficient \in SUBSET StreamEsis(Len(block_hashes_hex), symbol_size,
                                             repair_packets_per_block)
       \/ /\ block_hashes_hex \in MalformedInputs
          /\ symbol_size = SYMBOL_SIZE
          /\ repair_packets_per_block = REPAIR_PACKETS_PER_BLOCK
          /\ simulated_loss = SIMULATED_LOSS
          /\ deficient = {}
    /\ pc = "start"
    /\ i = 1
    /\ data_bytes = <<>>
    /\ encoder = None
    /\ oti = None
    /\ packets = <<>>
    /\ received_packets = <<>>
    /\ survivors = <<>>
    /\ decoder = None
    /\ reconstructed = None
    /\ fed = <<>>
    /\ out = <<>>
    /\ exit_status = None

\* src/main.rs:18-24: the banner, then the empty buffer
Start ==
    /\ pc = "start"
    /\ out' = <<Line("banner", <<symbol_size, repair_packets_per_block, simulated_loss>>)>>
    /\ data_bytes' = <<>>
    /\ pc' = "assemble"
    /\ UNCHANGED <<params, i, encoder, oti, packets, received_packets, survivors, decoder,
                   reconstructed, fed, exit_status>>

\* src/main.rs:25-30: a record that decodes to 32 bytes is appended
AssembleRecord ==
    /\ pc = "assemble"
    /\ i <= Len(block_hashes_hex)
    /\ LET r == HexDecode(block_hashes_hex[i])
       IN  /\ r.ok
           /\ RecordLenOk(r.bytes)
           /\ data_bytes' = ExtendFromSlice(data_bytes, r.bytes)
           /\ out' = Append(out, Line("original_hash", block_hashes_hex[i]))
    /\ i' = i + 1
    /\ UNCHANGED <<params, pc, encoder, oti, packets, received_packets, survivors, decoder,
                   reconstructed, fed, exit_status>>

\* src/main.rs:26: decode(hash_hex)? returns the error from main
AssembleDecodeError ==
    /\ pc = "assemble"
    /\ i <= Len(block_hashes_hex)
    /\ ~HexDecode(block_hashes_hex[i]).ok
    /\ pc' = "aborted"
    /\ exit_status' = Some(1)
    /\ UNCHANGED <<params, i, data_bytes, encoder, oti, packets, received_packets, survivors,
                   decoder, reconstructed, fed, out>>

\* src/main.rs:27: assert_eq!(bytes.len(), 32) panics
AssembleAssertFail ==
    /\ pc = "assemble"
    /\ i <= Len(block_hashes_hex)
    /\ HexDecode(block_hashes_hex[i]).ok
    /\ ~RecordLenOk(HexDecode(block_hashes_hex[i]).bytes)
    /\ pc' = "aborted"
    /\ exit_status' = Some(101)
    /\ UNCHANGED <<params, i, data_bytes, encoder, oti, packets, received_packets, survivors,
                   decoder, reconstructed, fed, out>>

\* src/main.rs:32-33: the loop is over, the total is printed
AssembleDone ==
    /\ pc = "assemble"
    /\ i > Len(block_hashes_hex)
    /\ out' = Append(out, Line("total_data", <<Len(data_bytes), Len(block_hashes_hex)>>))
    /\ pc' = "encode"
    /\ UNCHANGED <<params, i, data_bytes, encoder, oti, packets, received_packets, survivors,
                   decoder, reconstructed, fed, exit_status>>

\* the repair packets collected ahead of the source packets
GeneratePacketsRepairFirst(enc, repair) == RepairPackets(enc, repair) \o SourcePackets(enc)

\* src/main.rs:42: the packet vector main takes from the encoder in one call
GeneratePackets(enc, repair) == GetEncodedPackets(enc, repair)

\* src/main.rs:36-57: encoder, configuration, packets, count and preview
Encode ==
    /\ pc = "encode"
    /\ LET enc  == EncoderWithDefaults(data_bytes, symbol_size)
           pkts == GeneratePackets(enc, repair_packets_per_block)
       IN  /\ encoder' = Some(enc)
           /\ oti' = Some(GetConfig(enc))
           /\ packets' = pkts
           /\ out' = Append(out, Line("generated", <<Len(pkts)>>)) \o PreviewLines(pkts)
    /\ pc' = "shuffle"
    /\ UNCHANGED <<params, i, data_bytes, received_packets, survivors, decoder, reconstructed,
                   fed, exit_status>>

\* src/main.rs:60-62: the packet vector is moved and shuffled
ShufflePackets ==
    /\ pc = "shuffle"
    /\ \E perm \in Perms(Len(packets)) : received_packets' = Shuffle(packets, perm)
    /\ pc' = "truncate"
    /\ UNCHANGED <<params, i, data_bytes, encoder, oti, packets, survivors, decoder,
                   reconstructed, fed, out, exit_status>>

\* src/main.rs:63-65: the last simulated_loss packets are dropped
TruncatePackets ==
    /\ pc = "truncate"
    /\ received_packets' = Truncate(received_packets,
                                    SurvivorCount(Len(received_packets), simulated_loss))
    /\ out' = Append(out, Line("lost", <<simulated_loss, Len(received_packets')>>))
    /\ pc' = "decoder"
    /\ UNCHANGED <<params, i, data_bytes, encoder, oti, packets, survivors, decoder,
                   reconstructed, fed, exit_status>>

\* a result that starts as an empty buffer instead of None
InitialReconstructedEmpty == Some(<<>>)

\* src/main.rs:71: let mut reconstructed = None
InitialReconstructed == None

\* src/main.rs:68-72: the decoding session, the empty result, the iterator
NewDecoder ==
    /\ pc = "decoder"
    /\ decoder' = Some(DecoderNew(Unwrap(oti)))
    /\ reconstructed' = InitialReconstructed
    /\ survivors' = received_packets
    /\ pc' = "feed"
    /\ UNCHANGED <<params, i, data_bytes, encoder, oti, packets, received_packets, fed, out,
                   exit_status>>

\* src/main.rs:73: if let Some(data) = decoder.decode(packet)
FeedSucceeded(res) == IsSome(res)

\* src/main.rs:74: reconstructed = Some(data)
StoreResult(res) == Some(Unwrap(res))

\* a break placed after the if let: the loop stops after the first packet
BreakAlways(res) == TRUE

\* the break taken on the wrong branch: the loop goes on after a success
BreakInverted(res) == ~FeedSucceeded(res)

\* no break: the loop feeds every surviving packet
BreakNever(res) == FALSE

\* src/main.rs:76: the break sits inside the if let, it is taken on success only
BreakTaken(res) == FeedSucceeded(res)

\* src/main.rs:72-78 as a function: the packets fed in order to the decoder
\* until the break; count is the number of packets fed
RECURSIVE FeedLoop(_, _, _, _, _)
FeedLoop(dec, pkts, bad, rec, n) ==
    IF pkts = <<>>
    THEN [reconstructed |-> rec, count |-> n]
    ELSE LET r    == DecoderDecode(dec, Head(pkts), bad)
             rec1 == IF FeedSucceeded(r.result) THEN StoreResult(r.result) ELSE rec
         IN  IF BreakTaken(r.result)
             THEN [reconstructed |-> rec1, count |-> n + 1]
             ELSE FeedLoop(r.decoder, Tail(pkts), bad, rec1, n + 1)

\* src/main.rs:72-77: one iteration of the feed loop; a feed that returns a
\* buffer stores it and breaks, which drops the rest of the iterator
FeedPacket ==
    /\ pc = "feed"
    /\ received_packets /= <<>>
    /\ LET packet == Head(received_packets)
           r      == DecoderDecode(Unwrap(decoder), packet, deficient)
       IN  /\ decoder' = Some(r.decoder)
           /\ fed' = Append(fed, packet)
           /\ IF FeedSucceeded(r.result)
              THEN /\ reconstructed' = StoreResult(r.result)
                   /\ out' = Append(out, Line("early_success", <<>>))
              ELSE UNCHANGED <<reconstructed, out>>
           /\ IF BreakTaken(r.result)
              THEN /\ received_packets' = <<>>
                   /\ pc' = "report"
              ELSE /\ received_packets' = Tail(received_packets)
                   /\ pc' = pc
    /\ UNCHANGED <<params, i, data_bytes, encoder, oti, packets, survivors, exit_status>>

\* src/main.rs:72, 78: the iterator is empty, the loop ends
FeedExhausted ==
    /\ pc = "feed"
    /\ received_packets = <<>>
    /\ pc' = "report"
    /\ UNCHANGED <<params, i, data_bytes, encoder, oti, packets, received_packets, survivors,
                   decoder, reconstructed, fed, out, exit_status>>

\* a failed run sent back to the loss simulation instead of returning
ReportNextRetry(rec) == IF IsSome(rec) THEN "done" ELSE "shuffle"

\* src/main.rs:91-93: after either arm of the match main returns
ReportNext(rec) == "done"

\* src/main.rs:81-87, 93: the recovered records are printed, main returns Ok
ReportSuccess ==
    /\ pc = "report"
    /\ IsSome(reconstructed)
    /\ out' = out \o ReportLines(reconstructed)
    /\ pc' = ReportNext(reconstructed)
    /\ exit_status' = Some(0)
    /\ UNCHANGED <<params, i, data_bytes, encoder, oti, packets, received_packets, survivors,
                   decoder, reconstructed, fed>>

\* src/main.rs:88-90, 93: the failure notice is printed, main returns Ok
ReportFailure ==
    /\ pc = "report"
    /\ ~IsSome(reconstructed)
    /\ out' = out \o ReportLines(reconstructed)
    /\ pc' = ReportNext(reconstructed)
    /\ exit_status' = Some(0)
    /\ UNCHANGED <<params, i, data_bytes, encoder, oti, packets, received_packets, survivors,
                   decoder, reconstructed, fed>>

Next ==
    \/ Start
    \/ AssembleRecord
    \/ AssembleDecodeError
    \/ AssembleAssertFail
    \/ AssembleDone
    \/ Encode
    \/ ShufflePackets
    \/ TruncatePackets
    \/ NewDecoder
    \/ FeedPacket
    \/ FeedExhausted
    \/ ReportSuccess
    \/ ReportFailure

Spec == Init /\ [][Next]_vars

TypeOK ==
    /\ pc \in {"start", "assemble", "encode", "shuffle", "truncate", "decoder", "feed",
               "report", "done", "aborted"}
    /\ i \in 1..(Len(block_hashes_hex) + 1)
    /\ Len(fed) <= Len(survivors)

(* ======================= properties ======================= *)
\* the feed loop has ended
LoopEnded == pc \in {"report", "done"}

\* the Channel Simulator has acted
AfterChannel == pc \in {"decoder", "feed", "report", "done"}

\* the Surviving Packet Set in the order the feed loop consumes it
Surviving == IF pc = "decoder" THEN received_packets ELSE survivors

\* equality of packets: payload identifier first, then the data
SamePacket(p, q) == p.sbn = q.sbn /\ p.esi = q.esi /\ p.data = q.data

Occurrences(s, p) == Cardinality({j \in 1..Len(s) : SamePacket(s[j], p)})

FedEsis == {fed[j].esi : j \in 1..Len(fed)}

\* the number of source symbols of the buffer for the chosen symbol size
MinSymbols == SourceBlockSymbols(WithDefaults(Len(data_bytes), symbol_size))

(* C1: whenever the feed loop has ended with a reconstructed buffer, that   *)
(* buffer equals the source buffer byte for byte.                           *)
C1_SuccessIsExact ==
    (LoopEnded /\ IsSome(reconstructed)) => Unwrap(reconstructed) = data_bytes

\* a success in which packets were lost, a source symbol was never fed and
\* the last source symbol is padded
C1_Witness ==
    /\ pc = "done"
    /\ IsSome(reconstructed)
    /\ simulated_loss > 0
    /\ \E e \in 0..(MinSymbols - 1) : e \notin FedEsis
    /\ Len(data_bytes) % AlignSymbolSize(symbol_size) /= 0

C3_SurvivorLength ==
    AfterChannel =>
        Len(Surviving) = (IF simulated_loss >= Len(packets) THEN 0
                          ELSE Len(packets) - simulated_loss)

\* the loss count exceeds the stream length and the step has completed
C3_Witness ==
    /\ pc = "decoder"
    /\ Len(packets) > 0
    /\ simulated_loss > Len(packets)
    /\ received_packets = <<>>

(* C4: every surviving packet is a packet of the generated stream, with the *)
(* same payload identifier and data, and occurs in the surviving set no     *)
(* more often than in the stream.                                           *)
C4_ChannelSubset ==
    AfterChannel =>
        \A j \in 1..Len(Surviving) :
            /\ \E k \in 1..Len(packets) : SamePacket(Surviving[j], packets[k])
            /\ Occurrences(Surviving, Surviving[j]) <= Occurrences(packets, Surviving[j])

\* some packets were dropped and the survivors are out of stream order
C4_Witness ==
    /\ pc = "decoder"
    /\ Len(received_packets) >= 2
    /\ Len(received_packets) < Len(packets)
    /\ received_packets[1].esi > received_packets[2].esi

HasLine(tag) == \E j \in 1..Len(out) : out[j].tag = tag

(* C5: when fewer packets survive than the buffer has source symbols, the   *)
(* feed loop never stores a result and the run ends with the failure        *)
(* notice, for every shuffle.                                               *)
C5_ExhaustionCorrect ==
    (pc \in {"feed", "report", "done"} /\ Len(survivors) < MinSymbols) =>
        /\ ~IsSome(reconstructed)
        /\ ~HasLine("early_success")
        /\ pc = "done" => (HasLine("failed") /\ ~HasLine("full_success"))

\* a run that fed some packets, fewer than the symbols needed, and is over
C5_Witness ==
    /\ pc = "done"
    /\ Len(survivors) > 0
    /\ Len(survivors) < MinSymbols
    /\ fed = survivors
    /\ ~IsSome(reconstructed)

(* C6: the failure notice is printed exactly by the runs whose surviving    *)
(* set is empty or was fed to the end without a feed returning a buffer;    *)
(* such a run ends normally with reconstructed None.                        *)
C6_FailureOutcome ==
    /\ HasLine("failed") =>
          /\ pc = "done"
          /\ ~IsSome(reconstructed)
          /\ fed = survivors
          /\ ~HasLine("early_success")
          /\ exit_status = Some(0)
    /\ (pc = "done" /\ ~IsSome(reconstructed)) => HasLine("failed")
    /\ (pc = "done" /\ IsSome(reconstructed)) => ~HasLine("failed")
    /\ (AfterChannel /\ simulated_loss >= Len(packets)) => Surviving = <<>>
    /\ (pc = "done" /\ survivors = <<>>) => (HasLine("failed") /\ fed = <<>>)

\* every generated packet was lost and the run ended with the failure notice
C6_Witness ==
    /\ pc = "done"
    /\ Len(packets) > 0
    /\ simulated_loss >= Len(packets)
    /\ survivors = <<>>
    /\ HasLine("failed")
    /\ exit_status = Some(0)

(* C7: the result of the feed loop, None or the reconstructed buffer, is    *)
(* the same for every order in which the surviving packets could have been  *)
(* fed.                                                                     *)
C7_OrderIndependent ==
    LoopEnded =>
        \A perm \in Perms(Len(survivors)) :
            FeedLoop(DecoderNew(Unwrap(oti)), Shuffle(survivors, perm), deficient,
                     InitialReconstructed, 0).reconstructed = reconstructed

\* a successful run for which another order of the same packets succeeds
\* after a different number of feeds
C7_Witness ==
    /\ pc = "done"
    /\ IsSome(reconstructed)
    /\ Len(survivors) >= 2
    /\ \E perm \in Perms(Len(survivors)) :
           FeedLoop(DecoderNew(Unwrap(oti)), Shuffle(survivors, perm), deficient,
                    InitialReconstructed, 0).count /= Len(fed)

\* the decoder after every packet of pkts has been passed to it
RECURSIVE DecoderAfter(_, _, _)
DecoderAfter(dec, pkts, bad) ==
    IF pkts = <<>> THEN dec
    ELSE DecoderAfter(DecoderDecode(dec, Head(pkts), bad).decoder, Tail(pkts), bad)

\* feeding pkts to a fresh decoder ends with a feed that returns a buffer
Completes(pkts) == IsSome(DecoderAfter(DecoderNew(Unwrap(oti)), pkts, deficient).block)

(* C9: the packets fed are a prefix of the surviving packets in their       *)
(* shuffled and truncated order; no feed before the last returned a buffer; *)
(* the loop ends either at the first feed that returns a buffer or with     *)
(* every survivor fed, and the packets after that feed are dropped unfed.   *)
C9_EarlyTermination ==
    pc \in {"feed", "report", "done"} =>
        /\ Len(fed) <= Len(survivors)
        /\ fed = SubSeq(survivors, 1, Len(fed))
        /\ \A n \in 0..(Len(fed) - 1) : ~Completes(SubSeq(survivors, 1, n))
        /\ pc = "feed" => fed \o received_packets = survivors
        /\ LoopEnded => /\ received_packets = <<>>
                        /\ Completes(fed) \/ fed = survivors
                        /\ IsSome(reconstructed) <=> Completes(fed)

\* a run that succeeded before the last surviving packet and left the rest unfed
C9_Witness ==
    /\ pc = "done"
    /\ IsSome(reconstructed)
    /\ Len(fed) >= 2
    /\ Len(fed) < Len(survivors)

RecordMalformed(h) == Len(h) /= 2 * RECORD_LEN \/ \E j \in 1..Len(h) : ~IsHexDigit(h[j])

InputMalformed == \E j \in 1..Len(block_hashes_hex) : RecordMalformed(block_hashes_hex[j])

FirstMalformed ==
    CHOOSE j \in 1..Len(block_hashes_hex) :
        /\ RecordMalformed(block_hashes_hex[j])
        /\ \A k \in 1..(j - 1) : ~RecordMalformed(block_hashes_hex[k])

(* C10: a run over a record list with a malformed record (not valid hex, or *)
(* not 32 bytes) stops at the first such record during assembly: no         *)
(* encoder, configuration, packet or decoder is ever created, nothing is    *)
(* reconstructed or reported, and the process ends with an error status.    *)
(* Only such runs abort.                                                    *)
C10_MalformedAborts ==
    /\ InputMalformed =>
          /\ pc \in {"start", "assemble", "aborted"}
          /\ i <= FirstMalformed
          /\ encoder = None /\ oti = None /\ packets = <<>> /\ received_packets = <<>>
          /\ decoder = None /\ reconstructed = None /\ fed = <<>>
          /\ \A j \in 1..Len(out) : out[j].tag \in {"banner", "original_hash"}
          /\ pc = "aborted" => (i = FirstMalformed /\ exit_status \in {Some(1), Some(101)})
          /\ pc /= "aborted" => exit_status = None
    /\ pc = "aborted" => InputMalformed

\* a run aborted at its second record, after one record had been assembled
C10_Witness ==
    /\ pc = "aborted"
    /\ i = 2
    /\ Len(data_bytes) = RECORD_LEN
    /\ exit_status = Some(101)

(* C11: a finished run ends with the success status exactly when a buffer   *)
(* was reconstructed, so that a successful and an exhausted run end with    *)
(* different statuses.                                                      *)
C11_ExitStatusReflectsOutcome ==
    pc = "done" => (exit_status = Some(0) <=> IsSome(reconstructed))

(* ---- the Verifier/Reporter on its own (src/main.rs:80-93) ---- *)
\* the bytes of the first n sample records
AssembledSample(n) == Flatten([j \in 1..n |-> HexDecode(SampleHash(j)).bytes])

\* what the feed loop can hand to the match: None, or a buffer of any length
\* up to the source buffer's, a transform that breaks its contract included
VerifierInputs ==
    {None} \cup {Some(SubSeq(AssembledSample(MaxRecords), 1, len)) :
                    len \in 0..(MaxRecords * RECORD_LEN)}

InitVerifier ==
    /\ block_hashes_hex = SampleHashes(MaxRecords)
    /\ symbol_size = SYMBOL_SIZE
    /\ repair_packets_per_block = REPAIR_PACKETS_PER_BLOCK
    /\ simulated_loss = SIMULATED_LOSS
    /\ deficient = {}
    /\ pc = "report"
    /\ i = MaxRecords + 1
    /\ data_bytes = AssembledSample(MaxRecords)
    /\ encoder = None
    /\ oti = None
    /\ packets = <<>>
    /\ received_packets = <<>>
    /\ survivors = <<>>
    /\ decoder = None
    /\ reconstructed \in VerifierInputs
    /\ fed = <<>>
    /\ out = <<>>
    /\ exit_status = None

NextVerifier ==
    \/ ReportSuccess
    \/ ReportFailure

SpecVerifier == InitVerifier /\ [][NextVerifier]_vars

(* C12: a reconstructed buffer whose length is not a multiple of the record *)
(* length is reported as an integrity fault, distinct from success and from *)
(* the failure notice, and not as a full success.                           *)
C12_IntegrityFaultReported ==
    (pc = "done" /\ IsSome(reconstructed)
        /\ Len(Unwrap(reconstructed)) % RECORD_LEN /= 0) =>
        /\ HasLine("integrity_fault")
        /\ ~HasLine("full_success")
        /\ ~HasLine("failed")

\* the encoder has run
AfterEncode == pc \in {"shuffle", "truncate", "decoder", "feed", "report", "done"}

(* C13: with repair count 0 the stream holds only source symbols, a run     *)
(* succeeds only if no packet is lost, and a configuration warning is       *)
(* printed by the time the packets have been generated.                     *)
C13_ZeroRepairWarned ==
    (repair_packets_per_block = 0 /\ AfterEncode) =>
        /\ \A j \in 1..Len(packets) : packets[j].esi < MinSymbols
        /\ (LoopEnded /\ simulated_loss >= 1) => ~IsSome(reconstructed)
        /\ HasLine("config_warning")

\* the arguments of the "Recovered hash" lines, in the order printed
RecoveredHashes ==
    LET ls == SelectSeq(out, LAMBDA l : l.tag = "recovered_hash")
    IN  [j \in 1..Len(ls) |-> ls[j].arg]

(* C14: a run that ends with a reconstructed buffer prints exactly          *)
(* buffer_length / 32 recovered records, with no bytes left over, as many   *)
(* as there were input records, and the i-th one is the i-th input record.  *)
C14_ChunkingOnSuccess ==
    (pc = "done" /\ IsSome(reconstructed)) =>
        LET buf == Unwrap(reconstructed)
        IN  /\ Len(buf) % RECORD_LEN = 0
            /\ Len(RecoveredHashes) = Len(buf) \div RECORD_LEN
            /\ Len(RecoveredHashes) = Len(block_hashes_hex)
            /\ \A j \in 1..Len(RecoveredHashes) :
                  /\ RecoveredHashes[j] = block_hashes_hex[j]
                  /\ HexDecode(RecoveredHashes[j]).bytes
                        = SubSeq(buf, (j - 1) * RECORD_LEN + 1, j * RECORD_LEN)

\* a successful run over several records in which a packet was lost
C14_Witness ==
    /\ pc = "done"
    /\ IsSome(reconstructed)
    /\ Len(block_hashes_hex) >= 2
    /\ simulated_loss >= 1
    /\ Len(RecoveredHashes) >= 2

\* the bytes of input record j, and the byte range [(j-1)*L, j*L) of the buffer
RecordBytes(j) == HexDecode(block_hashes_hex[j]).bytes

BufferRange(j) == SubSeq(data_bytes, (j - 1) * RECORD_LEN + 1, j * RECORD_LEN)

(* C15: once n well-formed records have been assembled the source buffer is *)
(* exactly n * 32 bytes long and record j (from 0) occupies its bytes       *)
(* [j*32, (j+1)*32); the same holds of the records assembled so far while   *)
(* the loop runs.                                                           *)
C15_AssemblerLayout ==
    /\ pc = "assemble" =>
          /\ Len(data_bytes) = (i - 1) * RECORD_LEN
          /\ \A j \in 1..(i - 1) : BufferRange(j) = RecordBytes(j)
    /\ pc \notin {"start", "assemble", "aborted"} =>
          /\ Len(data_bytes) = Len(block_hashes_hex) * RECORD_LEN
          /\ Len(data_bytes) % RECORD_LEN = 0
          /\ \A j \in 1..Len(block_hashes_hex) : BufferRange(j) = RecordBytes(j)

\* several records have been assembled and the encoder is about to run
C15_Witness ==
    /\ pc = "encode"
    /\ Len(block_hashes_hex) >= 2
    /\ Len(data_bytes) = Len(block_hashes_hex) * RECORD_LEN
    /\ BufferRange(1) /= BufferRange(2)

\* the stream as the claim describes it: K source symbols in natural order,
\* then the repair symbols of the block
StreamWellFormed ==
    LET K == MinSymbols
        Z == Unwrap(oti).source_blocks
    IN  /\ Len(packets) = K + repair_packets_per_block * Z
        /\ \A j \in 1..Min(K, Len(packets)) :
              /\ packets[j].sbn = 0
              /\ packets[j].esi = j - 1
              /\ packets[j].data = SourceSymbol(data_bytes, AlignSymbolSize(symbol_size), j - 1)
        /\ \A j \in (K + 1)..Len(packets) :
              /\ packets[j].sbn = 0
              /\ packets[j].esi >= K
              /\ j > K + 1 => packets[j].esi > packets[j - 1].esi

(* C16: the generated stream has source_symbol_count + repair_count *       *)
(* block_count packets, the source symbols of the block in natural order    *)
(* followed by its repair symbols; it is generated by the one encode step   *)
(* and stays as generated for the rest of the run.                          *)
C16_PacketStream ==
    /\ [](AfterEncode => StreamWellFormed)
    /\ [][AfterEncode => (packets' = packets /\ encoder' = encoder /\ oti' = oti)]_vars
    /\ [][packets' /= packets => (pc = "encode" /\ packets = <<>>)]_vars

\* a stream with several source symbols and a repair symbol has been generated
C16_Witness ==
    /\ pc = "shuffle"
    /\ MinSymbols >= 2
    /\ repair_packets_per_block >= 1
    /\ Len(packets) = MinSymbols + repair_packets_per_block

\* src/main.rs:60-78 as a function of the stream, the permutation drawn and
\* the loss count: what the feed loop ends with
RunOutcome(cfg, pkts, perm, loss, bad) ==
    FeedLoop(DecoderNew(cfg),
             Truncate(Shuffle(pkts, perm), SurvivorCount(Len(pkts), loss)),
             bad, InitialReconstructed, 0).reconstructed

\* loss count k is tolerated: the run succeeds for every shuffle
Tolerated(cfg, pkts, k, bad) ==
    \A perm \in Perms(Len(pkts)) : IsSome(RunOutcome(cfg, pkts, perm, k, bad))

\* L: the largest k such that every loss count up to k is tolerated (-1 if none)
MaxTolerated(cfg, pkts, bad) ==
    LET ok == {k \in 0..MaxLoss : \A m \in 0..k : Tolerated(cfg, pkts, m, bad)}
    IN  IF ok = {} THEN 0 - 1 ELSE CHOOSE k \in ok : \A m \in ok : m <= k

\* the stream for one more repair packet per block, and its additional symbol id
StreamPlusOne == GeneratePackets(Unwrap(encoder), repair_packets_per_block + 1)

\* the solver's verdicts on the larger stream: as before on the symbols of the
\* smaller one, either way on sets with the additional symbol
DeficientPlusOne == {deficient, deficient \cup {StreamPlusOne[Len(StreamPlusOne)].esi}}

(* C17: for a fixed buffer and symbol size there is a largest loss count    *)
(* L(r) >= 0 up to which every run with repair count r succeeds whatever    *)
(* the shuffle; a loss count tolerated with r is tolerated with r + 1, and  *)
(* L(r) <= L(r + 1).                                                        *)
C17_LossToleranceMonotone ==
    pc = "shuffle" =>
        \A bad1 \in DeficientPlusOne :
            /\ MaxTolerated(Unwrap(oti), packets, deficient) >= 0
            /\ MaxTolerated(Unwrap(oti), packets, deficient)
                  <= MaxTolerated(Unwrap(oti), StreamPlusOne, bad1)
            /\ \A k \in 0..MaxLoss :
                  Tolerated(Unwrap(oti), packets, k, deficient)
                      => Tolerated(Unwrap(oti), StreamPlusOne, k, bad1)

\* a stream with a repair packet that tolerates a loss, and tolerates a
\* larger one with one more repair packet
C17_Witness ==
    /\ pc = "shuffle"
    /\ repair_packets_per_block >= 1
    /\ MaxTolerated(Unwrap(oti), packets, deficient) >= 1
    /\ MaxTolerated(Unwrap(oti), StreamPlusOne, deficient)
          > MaxTolerated(Unwrap(oti), packets, deficient)

\* the lines of the success branch for the stored buffer
ReportedAsStored ==
    /\ \E j \in 1..Len(out) :
          out[j] = Line("full_success", <<Len(Unwrap(reconstructed))>>)
    /\ RecoveredHashes = [c \in 1..Len(ChunksExact(Unwrap(reconstructed), RECORD_LEN)) |->
                             HexEncode(ChunksExact(Unwrap(reconstructed), RECORD_LEN)[c])]

(* C18: the result is stored by the first feed that returns a buffer and is *)
(* that buffer; from then on it is not changed, no packet is fed and the    *)
(* decoder is not touched; once the loop has ended it stays ended, and the  *)
(* success report prints the stored buffer.                                 *)
C18_MonotonicDecoding ==
    /\ [][IsSome(reconstructed) =>
             (reconstructed' = reconstructed /\ fed' = fed /\ decoder' = decoder)]_vars
    /\ [][(~IsSome(reconstructed) /\ IsSome(reconstructed')) =>
             /\ pc = "feed" /\ pc' = "report"
             /\ reconstructed' = DecoderDecode(Unwrap(decoder), Head(received_packets),
                                               deficient).result]_vars
    /\ [][LoopEnded => (LoopEnded' /\ fed' = fed /\ reconstructed' = reconstructed
                        /\ received_packets' = received_packets)]_vars
    /\ [](pc = "done" /\ IsSome(reconstructed) => ReportedAsStored)

\* the loop has just ended on a success with surviving packets left unfed
C18_Witness ==
    /\ pc = "report"
    /\ IsSome(reconstructed)
    /\ Len(fed) >= 1
    /\ Len(fed) < Len(survivors)
    /\ received_packets = <<>>

\* the order of the positions of main
Rank(p) ==
    CASE p = "start"    -> 0
      [] p = "assemble" -> 1
      [] p = "encode"   -> 2
      [] p = "shuffle"  -> 3
      [] p = "truncate" -> 4
      [] p = "decoder"  -> 5
      [] p = "feed"     -> 6
      [] p = "report"   -> 7
      [] p = "done"     -> 8
      [] p = "aborted"  -> 8

(* C19: main never goes back: the encoder, the shuffle, the truncation and  *)
(* the creation of the decoder each run at most once, the encoder, the      *)
(* stream and the decoding session are never replaced, and after the loop   *)
(* has ended without a result the only step left prints the failure notice  *)
(* and ends the run, with no packet generated, shuffled or fed again.       *)
C19_NoRetry ==
    /\ [][Rank(pc') >= Rank(pc)]_vars
    /\ [][(pc \in {"encode", "shuffle", "truncate", "decoder", "report"}) =>
             (Rank(pc) < Rank(pc'))]_vars
    /\ [][IsSome(encoder) => (encoder' = encoder /\ oti' = oti /\ packets' = packets)]_vars
    /\ [][IsSome(decoder) =>
             /\ IsSome(decoder')
             /\ Unwrap(decoder').config = Unwrap(decoder).config
             /\ survivors' = survivors]_vars
    /\ [][(LoopEnded /\ ~IsSome(reconstructed)) =>
             /\ pc = "report" /\ pc' = "done"
             /\ out' = Append(out, Line("failed", <<>>))
             /\ UNCHANGED <<encoder, oti, packets, received_packets, survivors, decoder,
                            reconstructed, fed>>]_vars

\* a run that fed every survivor, enough of them in number, without a result
\* and ended with the failure notice
C19_Witness ==
    /\ pc = "done"
    /\ ~IsSome(reconstructed)
    /\ Len(fed) >= MinSymbols
    /\ fed = survivors
    /\ HasLine("failed")

\* main is one sequential program: whenever a next step exists it is taken
FairSpec == Spec /\ WF_vars(Next)

\* max(0, N - k)
MaxFeeds ==
    IF simulated_loss >= Len(packets) THEN 0 ELSE Len(packets) - simulated_loss

\* the run is over in exactly one of the two terminal states
OneTerminalState ==
    \/ /\ IsSome(reconstructed)
       /\ HasLine("full_success") /\ ~HasLine("failed")
    \/ /\ ~IsSome(reconstructed)
       /\ HasLine("failed") /\ ~HasLine("full_success") /\ ~HasLine("early_success")

(* C20: a run that has passed assembly reaches the end of main, in exactly  *)
(* one of the two terminal states, after at most max(0, N - k) feeds, the   *)
(* packets fed being the first surviving packets, each fed once.            *)
C20_Termination ==
    /\ (pc = "encode") ~> (pc = "done")
    /\ [](pc = "done" => OneTerminalState)
    /\ [](pc \in {"feed", "report", "done"} =>
             /\ Len(fed) <= MaxFeeds
             /\ Len(survivors) = MaxFeeds
             /\ fed = SubSeq(survivors, 1, Len(fed)))

\* a finished run that needed every one of its several surviving packets
C20_Witness ==
    /\ pc = "done"
    /\ simulated_loss >= 1
    /\ Len(fed) >= 2
    /\ Len(fed) = MaxFeeds

====
